---- MODULE Spec2Model ----
(***************************************************************************)
(* Model of the resumable batch synchronisation engine of collector.py:    *)
(* the sqlite store (coinbase_spends, metadata), the connection's          *)
(* uncommitted transaction, the remote warehouse and the control flow of   *)
(* main(), one action per statement group between two durable commits.     *)
(***************************************************************************)
EXTENDS Integers, Sequences, FiniteSets, TLC

\* ------------------------------------------------------------------ bounds
\* highest block height the remote dataset can grow to
MaxHeight == 2
\* largest BATCH_SIZE drawn from the environment (the smallest is -1)
MaxBatch == 2
\* number of remote rows that may carry a null / non-numeric scalar
MaxBad == 1
\* number of coinbase outputs that may become spent
MaxSpends == 1
\* largest height handed to set_last_processed_height on its own
MaxCheckpoint == 12
\* largest number of rows in a fetch result examined on its own
MaxRows == 2

\* ------------------------------------------------------- optional values
\* Python None / SQL NULL is the empty tuple, a present value v is <<v>>.
None == <<>>
Some(v) == <<v>>

\* --------------------------------------------------------- scalar values
\* A BigQuery numeric scalar: a decimal with one fractional digit, held as
\* a count of tenths, or NaN.
Num(n) == [nan |-> FALSE, tenths |-> n * 10]
Dec(n, tenth) == [nan |-> FALSE, tenths |-> n * 10 + tenth]
NaN == [nan |-> TRUE, tenths |-> 0]

\* int(d) of a finite decimal: truncation toward zero.
PyInt(d) == IF d.tenths >= 0 THEN d.tenths \div 10 ELSE 0 - ((0 - d.tenths) \div 10)

\* int(value) raises on NaN; to_int passes None through.
ToIntRaises(value) == value # None /\ value[1].nan
to_int(value) == IF value = None THEN None ELSE Some(PyInt(value[1]))

\* datetime.isoformat(): the text form of a timestamp, distinct from it.
IsoFormat(t) == <<"iso", t>>

\* str(height) as sign and decimal digits, and int(text) parsing it back.
RECURSIVE Digits(_)
Digits(n) == IF n < 10 THEN <<n>> ELSE Append(Digits(n \div 10), n % 10)
Str(n) == [neg |-> n < 0, digits |-> Digits(IF n < 0 THEN 0 - n ELSE n)]
RECURSIVE DigitsValue(_)
DigitsValue(ds) ==
    IF ds = <<>> THEN 0
    ELSE 10 * DigitsValue(SubSeq(ds, 1, Len(ds) - 1)) + ds[Len(ds)]
ParseInt(s) == IF s.neg THEN 0 - DigitsValue(s.digits) ELSE DigitsValue(s.digits)

Min(a, b) == IF a <= b THEN a ELSE b

\* ----------------------------------------------------------- remote rows
\* The row the range join returns for the coinbase output created at height
\* h: kind says whether the warehouse delivers a null timestamp or a NaN value, spent
\* is None or the height of the spending transaction.
RowKinds == {"ok", "nulltime", "nanvalue"}
\* and the kind whose NUMERIC value has a fractional part
AnyRowKinds == RowKinds \cup {"fracvalue"}
RawRow(h, kind, spent) ==
    [creation_block_height |-> Some(Num(h)),
     creation_block_time   |-> IF kind = "nulltime" THEN None ELSE Some(h),
     coinbase_txid         |-> Some(<<"cb", h>>),
     output_index          |-> Some(Num(0)),
     value_sats            |-> IF kind = "nanvalue" THEN Some(NaN)
                               ELSE IF kind = "fracvalue" THEN Some(Dec(50, 5))
                               ELSE Some(Num(50)),
     spend_txid            |-> IF spent = None THEN None ELSE Some(<<"sp", spent[1]>>),
     spend_block_height    |-> IF spent = None THEN None ELSE Some(Num(spent[1])),
     spend_block_time      |-> IF spent = None THEN None ELSE Some(spent[1])]

RowKind(row) ==
    IF row.creation_block_time = None THEN "nulltime"
    ELSE IF ToIntRaises(row.value_sats) THEN "nanvalue"
    ELSE "ok"
IsBad(row) == row.creation_block_time = None \/ ToIntRaises(row.value_sats)
IsSpent(row) == row.spend_txid # None

BadCount(rows) == Cardinality({i \in DOMAIN rows : IsBad(rows[i])})
SpentCount(rows) == Cardinality({i \in DOMAIN rows : IsSpent(rows[i])})

\* MAX(block_number) of the transactions table, through to_int
get_max_block_height(rows) == to_int(Some(Num(Len(rows) - 1)))[1]

\* the range join: the coinbase outputs created in [s, e], in table order
InRange(row, s, e) == PyInt(row.creation_block_height[1]) \in s..e
fetch_batch(rows, s, e) == SelectSeq(rows, LAMBDA r : InRange(r, s, e))

\* ------------------------------------------------------------ the store
\* PRIMARY KEY (coinbase_txid, output_index)
Key(rec) == <<rec.coinbase_txid, rec.output_index>>
Keys(table) == {Key(rec) : rec \in table}

\* the five NOT NULL columns of coinbase_spends
NotNullOk(rec) ==
    /\ rec.coinbase_txid # None
    /\ rec.output_index # None
    /\ rec.value_sats # None
    /\ rec.creation_block_height # None
    /\ rec.creation_block_time # None

\* INSERT OR REPLACE: the statement a refresh-on-resync policy would use.
InsertOrReplace(table, rec) ==
    IF ~NotNullOk(rec) THEN table
    ELSE {x \in table : Key(x) # Key(rec)} \cup {rec}

\* INSERT OR IGNORE of one row: a NOT NULL or PRIMARY KEY violation skips the
\* row and the statement goes on.
InsertOrIgnore(table, rec) ==
    IF ~NotNullOk(rec) THEN table
    ELSE IF Key(rec) \in Keys(table) THEN table
    ELSE table \cup {rec}

\* conn.executemany(INSERT_DATA_SQL, rows): the rows one after the other.
RECURSIVE ExecuteMany(_, _)
ExecuteMany(table, rows) ==
    IF rows = <<>> THEN table
    ELSE ExecuteMany(InsertOrIgnore(table, Head(rows)), Tail(rows))

\* a plain INSERT into a metadata table without its primary key
InsertMeta(meta, k, v) ==
    meta \cup {[key |-> k, value |-> v]}

\* INSERT ... ON CONFLICT(key) DO UPDATE SET value = excluded.value
UpsertMeta(meta, k, v) ==
    {m \in meta : m.key # k} \cup {[key |-> k, value |-> v]}

\* SELECT value FROM metadata WHERE key = ?  then  int(row[0]) if row else -1
SelectMeta(meta, k) == {m \in meta : m.key = k}
get_last_processed_height(meta) ==
    IF SelectMeta(meta, "last_processed_height") = {} THEN -1
    ELSE ParseInt((CHOOSE m \in SelectMeta(meta, "last_processed_height") : TRUE).value)

\* CREATE TABLE IF NOT EXISTS for both tables: the tables that exist stay
ensure_schema(existing) == existing \cup {"coinbase_spends", "metadata"}

\* DROP TABLE IF EXISTS followed by CREATE TABLE: the table starts empty
CreateTable(name, existing, rows) == {}

\* the rows of table name after CREATE TABLE IF NOT EXISTS: those it had if
\* it was among the existing tables, none if it is new
CreateTableIfNotExists(name, existing, rows) ==
    IF name \in existing THEN rows ELSE {}

\* ------------------------------------------------------------- the run
\* one row of rows_to_insert
Normalize(row) ==
    [coinbase_txid         |-> row.coinbase_txid,
     output_index          |-> to_int(row.output_index),
     value_sats            |-> to_int(row.value_sats),
     creation_block_height |-> to_int(row.creation_block_height),
     creation_block_time   |-> IF row.creation_block_time # None
                               THEN Some(IsoFormat(row.creation_block_time[1]))
                               ELSE None,
     spend_txid            |-> row.spend_txid,
     spend_block_height    |-> to_int(row.spend_block_height),
     spend_block_time      |-> IF row.spend_block_time # None
                               THEN Some(IsoFormat(row.spend_block_time[1]))
                               ELSE None]

NormalizeRaises(row) ==
    \/ ToIntRaises(row.output_index)
    \/ ToIntRaises(row.value_sats)
    \/ ToIntRaises(row.creation_block_height)
    \/ ToIntRaises(row.spend_block_height)

RECURSIVE NormalizeAll(_)
NormalizeAll(rows) ==
    IF rows = <<>> THEN <<>>
    ELSE <<Normalize(Head(rows))>> \o NormalizeAll(Tail(rows))

\* batch_end = batch_start + BATCH_SIZE - 1, without the clamp to end
BatchEndUnclamped(bs, size, e) == bs + size - 1

\* batch_end = min(batch_start + BATCH_SIZE - 1, end)
BatchEnd(bs, size, e) == Min(bs + size - 1, e)

\* start = last_height + 2: an off-by-one resume
RangeStartSkipping(last) == last + 2

\* start = last_height + 1
RangeStart(last) == last + 1

\* ------------------------------------------------------------ the state
VARIABLES
    remote,          \* the warehouse: row h+1 is the coinbase output of height h
    tables,          \* names of the tables that exist in the store file
    coinbase_spends, \* durable (committed) rows of coinbase_spends
    metadata,        \* durable (committed) rows of metadata
    conn_spends,     \* coinbase_spends as the open connection sees it
    conn_meta,       \* metadata as the open connection sees it
    cursor,          \* rows of rows_to_insert that executemany has executed
    pc,              \* position of main()
    outcome,         \* how the last run ended
    BATCH_SIZE, last_height, max_height, start, end,
    batch_start, batch_end, results, rows_to_insert,
    batches,         \* history: the ranges passed to fetch_batch in the latest run
    last_commit,     \* history: end height of the batch whose rows were committed last
    resumed,         \* history: this run follows a run that failed or was terminated
    remote_mutated,  \* history: a row changed after the store came into being
    calls,           \* history: statements the latest run has issued, by kind
    other            \* the second collector process on the same store file

store == <<tables, coinbase_spends, metadata>>
conn == <<conn_spends, conn_meta, cursor>>
locals == <<BATCH_SIZE, last_height, max_height, start, end,
            batch_start, batch_end, results, rows_to_insert>>
history == <<batches, last_commit, resumed, remote_mutated, calls>>
vars == <<remote, store, conn, pc, outcome, locals, history, other>>

\* BATCH_SIZE values that are sizes, and every value int() accepts around them
BatchSizes == 1 .. MaxBatch
AnyBatchSizes == -1 .. MaxBatch
\* fetches after which a run that has not finished is no longer followed
FetchCap == MaxHeight + 1

\* no statement issued yet
NoCalls == [max_queries |-> 0, ckpt_reads |-> 0, ckpt_writes |-> 0]

\* a process that has not run main(): what Exit leaves, nothing issued
NoProcess ==
    [pc |-> "idle", outcome |-> "none", BATCH_SIZE |-> 1, last_height |-> -1,
     max_height |-> 0, start |-> 0, end |-> 0, batch_start |-> 0, batch_end |-> 0,
     results |-> <<>>, rows_to_insert |-> <<>>, conn_spends |-> {}, conn_meta |-> {},
     cursor |-> 0, batches |-> <<>>, calls |-> NoCalls]

\* every lock is free
NoTransaction(p) == FALSE

\* the connection of process p has a write transaction open: sqlite3 begins
\* one before the first INSERT and it lasts until conn.commit()
InTransaction(p) ==
    \/ p.pc = "insert" /\ p.cursor > 0
    \/ p.pc = "commit_rows" /\ p.rows_to_insert # <<>>
    \/ p.pc = "commit_meta"

\* a run is followed while it stays within the explored window
Followed == Len(batches) < FetchCap /\ batch_start >= -1

\* main() returns or the process exits: its variables and what the
\* connection had not committed are gone
Exit(how) ==
    /\ pc' = "idle"
    /\ outcome' = how
    /\ results' = <<>>
    /\ rows_to_insert' = <<>>
    /\ BATCH_SIZE' = 1
    /\ last_height' = -1
    /\ max_height' = 0
    /\ start' = 0
    /\ end' = 0
    /\ batch_start' = 0
    /\ batch_end' = 0
    /\ conn_spends' = coinbase_spends
    /\ conn_meta' = metadata
    /\ cursor' = 0

Init ==
    /\ \E kind \in {"ok", "nulltime"} : remote = <<RawRow(0, kind, None)>>
    /\ tables = {}
    /\ coinbase_spends = {}
    /\ metadata = {}
    /\ conn_spends = {}
    /\ conn_meta = {}
    /\ cursor = 0
    /\ pc = "idle"
    /\ outcome = "none"
    /\ BATCH_SIZE = 1
    /\ last_height = -1
    /\ max_height = 0
    /\ start = 0
    /\ end = 0
    /\ batch_start = 0
    /\ batch_end = 0
    /\ results = <<>>
    /\ rows_to_insert = <<>>
    /\ batches = <<>>
    /\ last_commit = None
    /\ resumed = FALSE
    /\ remote_mutated = FALSE
    /\ calls = NoCalls
    /\ other = NoProcess

\* ------------------------------------------------------ the environment
\* the chain grows by one block
RemoteGrow ==
    /\ Len(remote) <= MaxHeight
    /\ \E kind \in RowKinds :
        /\ kind # "ok" => BadCount(remote) < MaxBad
        /\ remote' = Append(remote, RawRow(Len(remote), kind, None))
    /\ UNCHANGED <<other, store, conn, pc, outcome, locals, history>>

\* an unspent coinbase output is spent by a transaction of the next block:
\* the join now returns its row with the spend fields set
RemoteSpend ==
    /\ SpentCount(remote) < MaxSpends
    /\ \E i \in DOMAIN remote :
        /\ ~IsSpent(remote[i])
        /\ i < Len(remote)
        /\ remote' = [remote EXCEPT ![i] = RawRow(i - 1, RowKind(remote[i]), Some(i))]
    /\ remote_mutated' = (remote_mutated \/ tables # {})
    /\ UNCHANGED <<other, store, conn, pc, outcome, locals, batches, last_commit, resumed, calls>>

\* ------------------------------------------------------------- main()
\* connect, ensure_schema, get_last_processed_height
StartRun(sizes) ==
    /\ pc = "idle"
    /\ \E size \in sizes : BATCH_SIZE' = size
    /\ tables' = ensure_schema(tables)
    /\ coinbase_spends' = CreateTableIfNotExists("coinbase_spends", tables, coinbase_spends)
    /\ metadata' = CreateTableIfNotExists("metadata", tables, metadata)
    /\ conn_spends' = coinbase_spends'
    /\ conn_meta' = metadata'
    /\ cursor' = 0
    /\ last_height' = get_last_processed_height(metadata')
    /\ max_height' = 0
    /\ start' = 0
    /\ end' = 0
    /\ batch_start' = 0
    /\ batch_end' = 0
    /\ results' = <<>>
    /\ rows_to_insert' = <<>>
    /\ batches' = <<>>
    /\ pc' = "max"
    /\ outcome' = "running"
    /\ resumed' = (outcome \in {"failed_max", "failed_fetch", "error_fetch", "error_normalize", "killed"})
    /\ calls' = [NoCalls EXCEPT !.ckpt_reads = 1]
    /\ UNCHANGED <<other, remote, last_commit, remote_mutated>>

\* get_max_block_height succeeds with a comparison that lets an equal
\* height through to the loop
GetMaxHeightStrict ==
    /\ pc = "max"
    /\ IF last_height > get_max_block_height(remote)
       THEN Exit("uptodate") /\ UNCHANGED batches
       ELSE /\ max_height' = get_max_block_height(remote)
            /\ start' = RangeStart(last_height)
            /\ end' = get_max_block_height(remote)
            /\ batch_start' = RangeStart(last_height)
            /\ pc' = "loop"
            /\ UNCHANGED <<outcome, conn, results, rows_to_insert, batches,
                           BATCH_SIZE, last_height, batch_end>>
    /\ calls' = [calls EXCEPT !.max_queries = @ + 1]
    /\ UNCHANGED <<other, remote, store, last_commit, resumed, remote_mutated>>

\* get_max_block_height succeeds; up to date, or the range is set
GetMaxHeight ==
    /\ pc = "max"
    /\ IF last_height >= get_max_block_height(remote)
       THEN Exit("uptodate") /\ UNCHANGED batches
       ELSE /\ max_height' = get_max_block_height(remote)
            /\ start' = RangeStart(last_height)
            /\ end' = get_max_block_height(remote)
            /\ batch_start' = RangeStart(last_height)
            /\ pc' = "loop"
            /\ UNCHANGED <<outcome, conn, results, rows_to_insert, batches,
                           BATCH_SIZE, last_height, batch_end>>
    /\ calls' = [calls EXCEPT !.max_queries = @ + 1]
    /\ UNCHANGED <<other, remote, store, last_commit, resumed, remote_mutated>>

\* get_max_block_height raises and the query is issued a second time
\* before main gives up
GetMaxHeightFailsRetry ==
    /\ pc = "max"
    /\ Exit("failed_max")
    /\ calls' = [calls EXCEPT !.max_queries = @ + 2]
    /\ UNCHANGED <<other, remote, store, batches, last_commit, resumed, remote_mutated>>

\* get_max_block_height raises GoogleAPICallError: message and return
GetMaxHeightFails ==
    /\ pc = "max"
    /\ Exit("failed_max")
    /\ calls' = [calls EXCEPT !.max_queries = @ + 1]
    /\ UNCHANGED <<other, remote, store, batches, last_commit, resumed, remote_mutated>>

\* the while condition is false: the run is complete
LoopExit ==
    /\ pc = "loop"
    /\ ~(batch_start <= end)
    /\ Exit("done")
    /\ UNCHANGED <<other, remote, store, history>>

\* a failed fetch that is reported and goes on with the next batch
FetchBatchFailsContinue ==
    /\ pc = "loop"
    /\ batch_start <= end
    /\ Followed
    /\ batch_end' = BatchEnd(batch_start, BATCH_SIZE, end)
    /\ batches' = Append(batches, <<batch_start, batch_end'>>)
    /\ batch_start' = batch_end' + 1
    /\ outcome' = "failed_fetch"
    /\ UNCHANGED <<other, remote, store, conn, pc, BATCH_SIZE, last_height, max_height,
                   start, end, results, rows_to_insert,
                   last_commit, resumed, remote_mutated, calls>>

\* fetch_batch raises: BadRequest is reported and main returns, any other
\* error leaves main as an uncaught exception
FetchBatchFails ==
    /\ pc = "loop"
    /\ batch_start <= end
    /\ Followed
    /\ batches' = Append(batches, <<batch_start, BatchEnd(batch_start, BATCH_SIZE, end)>>)
    /\ \E how \in {"failed_fetch", "error_fetch"} : Exit(how)
    /\ UNCHANGED <<other, remote, store, last_commit, resumed, remote_mutated, calls>>

\* batch_end is computed and fetch_batch returns the rows of the range
FetchBatch ==
    /\ pc = "loop"
    /\ batch_start <= end
    /\ Followed
    /\ batch_end' = BatchEnd(batch_start, BATCH_SIZE, end)
    /\ results' = fetch_batch(remote, batch_start, batch_end')
    /\ batches' = Append(batches, <<batch_start, batch_end'>>)
    /\ pc' = "normalize"
    /\ UNCHANGED <<other, remote, store, conn, outcome, BATCH_SIZE, last_height,
                   max_height, start, end, batch_start, rows_to_insert,
                   last_commit, resumed, remote_mutated, calls>>

\* the list comprehension builds rows_to_insert
NormalizeRows ==
    /\ pc = "normalize"
    /\ \A i \in DOMAIN results : ~NormalizeRaises(results[i])
    /\ rows_to_insert' = NormalizeAll(results)
    /\ pc' = "insert"
    /\ UNCHANGED <<other, remote, store, conn, outcome, BATCH_SIZE, last_height, max_height,
                   start, end, batch_start, batch_end, results, history>>

\* a cast raises inside the list comprehension: uncaught, main is left
NormalizeFails ==
    /\ pc = "normalize"
    /\ \E i \in DOMAIN results : NormalizeRaises(results[i])
    /\ Exit("error_normalize")
    /\ UNCHANGED <<other, remote, store, history>>

\* executemany on a connection in autocommit mode: every row is durable as
\* soon as its statement has run
InsertRowsAutocommit ==
    /\ pc = "insert"
    /\ IF cursor < Len(rows_to_insert)
       THEN /\ conn_spends' = InsertOrIgnore(conn_spends, rows_to_insert[cursor + 1])
            /\ coinbase_spends' = conn_spends'
            /\ cursor' = cursor + 1
            /\ pc' = pc
       ELSE /\ pc' = "commit_rows"
            /\ cursor' = 0
            /\ UNCHANGED <<conn_spends, coinbase_spends>>
    /\ UNCHANGED <<other, remote, tables, metadata, conn_meta, outcome, locals, history>>

\* conn.executemany(INSERT_DATA_SQL, rows_to_insert): the statement runs once
\* per row, in order, inside the transaction the first row opened
InsertRows ==
    /\ pc = "insert"
    /\ IF cursor < Len(rows_to_insert)
       THEN /\ ~InTransaction(other)
            /\ conn_spends' = InsertOrIgnore(conn_spends, rows_to_insert[cursor + 1])
            /\ cursor' = cursor + 1
            /\ pc' = pc
       ELSE /\ pc' = "commit_rows"
            /\ cursor' = 0
            /\ UNCHANGED conn_spends
    /\ UNCHANGED <<other, remote, store, conn_meta, outcome, locals, history>>

\* conn.commit() after the inserts
CommitRows ==
    /\ pc = "commit_rows"
    /\ coinbase_spends' = conn_spends
    /\ metadata' = conn_meta
    /\ last_commit' = Some(batch_end)
    /\ pc' = "upsert"
    /\ UNCHANGED <<other, remote, tables, conn, outcome, locals, batches, resumed, remote_mutated, calls>>

\* the checkpoint is written as the start of the next batch
UpsertCheckpointNext ==
    /\ pc = "upsert"
    /\ conn_meta' = UpsertMeta(conn_meta, "last_processed_height", Str(batch_end + 1))
    /\ pc' = "commit_meta"
    /\ calls' = [calls EXCEPT !.ckpt_writes = @ + 1]
    /\ UNCHANGED <<other, remote, store, conn_spends, cursor, outcome, locals,
                   batches, last_commit, resumed, remote_mutated>>

\* set_last_processed_height: the upsert statement
UpsertCheckpoint ==
    /\ pc = "upsert"
    /\ ~InTransaction(other)
    /\ conn_meta' = UpsertMeta(conn_meta, "last_processed_height", Str(batch_end))
    /\ pc' = "commit_meta"
    /\ calls' = [calls EXCEPT !.ckpt_writes = @ + 1]
    /\ UNCHANGED <<other, remote, store, conn_spends, cursor, outcome, locals,
                   batches, last_commit, resumed, remote_mutated>>

\* the commit, then the start of the next batch is taken from a new read of
\* the stored checkpoint
CommitCheckpointReread ==
    /\ pc = "commit_meta"
    /\ coinbase_spends' = conn_spends
    /\ metadata' = conn_meta
    /\ batch_start' = get_last_processed_height(conn_meta) + 1
    /\ calls' = [calls EXCEPT !.ckpt_reads = @ + 1]
    /\ pc' = "loop"
    /\ UNCHANGED <<other, remote, tables, conn, outcome, BATCH_SIZE, last_height, max_height,
                   start, end, batch_end, results, rows_to_insert,
                   batches, last_commit, resumed, remote_mutated>>

\* set_last_processed_height: conn.commit(); then batch_start = batch_end + 1
CommitCheckpoint ==
    /\ pc = "commit_meta"
    /\ coinbase_spends' = conn_spends
    /\ metadata' = conn_meta
    /\ batch_start' = batch_end + 1
    /\ pc' = "loop"
    /\ UNCHANGED <<other, remote, tables, conn, outcome, BATCH_SIZE, last_height, max_height,
                   start, end, batch_end, results, rows_to_insert, history>>

\* the process is terminated: what the connection had not committed is lost
Terminate ==
    /\ pc # "idle"
    /\ Exit("killed")
    /\ UNCHANGED <<other, remote, store, history>>

\* the steps of a run after its start
RunStep ==
    \/ GetMaxHeight
    \/ GetMaxHeightFails
    \/ LoopExit
    \/ FetchBatch
    \/ FetchBatchFails
    \/ NormalizeRows
    \/ NormalizeFails
    \/ InsertRows
    \/ CommitRows
    \/ UpsertCheckpoint
    \/ CommitCheckpoint
    \/ Terminate

Next ==
    \/ RemoteGrow
    \/ RemoteSpend
    \/ StartRun(BatchSizes)
    \/ RunStep

Spec == Init /\ [][Next]_vars

\* BATCH_SIZE is whatever integer the environment holds
NextAnyBatch ==
    \/ RemoteGrow
    \/ RemoteSpend
    \/ StartRun(AnyBatchSizes)
    \/ RunStep

SpecAnyBatch == Init /\ [][NextAnyBatch]_vars

\* ------------------------------------- the checkpoint functions alone
\* heights handed to set_last_processed_height
CheckpointHeights == (0 - MaxCheckpoint) .. MaxCheckpoint

\* a new store file after connect and ensure_schema
InitMeta ==
    /\ \E kind \in {"ok", "nulltime"} : remote = <<RawRow(0, kind, None)>>
    /\ tables = ensure_schema({})
    /\ coinbase_spends = {}
    /\ metadata = {}
    /\ conn_spends = {}
    /\ conn_meta = {}
    /\ cursor = 0
    /\ pc = "idle"
    /\ outcome = "none"
    /\ BATCH_SIZE = 1
    /\ last_height = -1
    /\ max_height = 0
    /\ start = 0
    /\ end = 0
    /\ batch_start = 0
    /\ batch_end = 0
    /\ results = <<>>
    /\ rows_to_insert = <<>>
    /\ batches = <<>>
    /\ last_commit = None
    /\ resumed = FALSE
    /\ remote_mutated = FALSE
    /\ calls = NoCalls
    /\ other = NoProcess

\* set_last_processed_height(conn, height): upsert of str(height), commit;
\* batch_end keeps the height that was passed
set_last_processed_height ==
    /\ \E height \in CheckpointHeights :
        /\ conn_meta' = UpsertMeta(conn_meta, "last_processed_height", Str(height))
        /\ batch_end' = height
    /\ metadata' = conn_meta'
    /\ coinbase_spends' = conn_spends
    /\ calls' = [calls EXCEPT !.ckpt_writes = Min(@ + 1, 2)]
    /\ UNCHANGED <<other, remote, tables, conn_spends, cursor, pc, outcome, BATCH_SIZE,
                   last_height, max_height, start, end, batch_start, results,
                   rows_to_insert, batches, last_commit, resumed, remote_mutated>>

\* last_height = get_last_processed_height(conn)
ReadCheckpoint ==
    /\ last_height' = get_last_processed_height(conn_meta)
    /\ calls' = [calls EXCEPT !.ckpt_reads = 1]
    /\ UNCHANGED <<other, remote, store, conn, pc, outcome, BATCH_SIZE, max_height,
                   start, end, batch_start, batch_end, results, rows_to_insert,
                   batches, last_commit, resumed, remote_mutated>>

NextMeta == set_last_processed_height \/ ReadCheckpoint

SpecMeta == InitMeta /\ [][NextMeta]_vars

\* --------------------------------------- one batch on any fetch result
\* a result row: the output of transaction t created at height h (the chain
\* holds coinbase transactions with the same hash at two heights)
TxRow(t, h, kind, spent) ==
    [RawRow(h, kind, spent) EXCEPT !.coinbase_txid = Some(<<"cb", t>>)]
RowHeights == 0 .. 1
RowUniverse ==
    {TxRow(t, h, kind, spent) :
        t \in RowHeights, h \in RowHeights, kind \in AnyRowKinds, spent \in {None, Some(0)}}
RowSeqs ==
    UNION {[1 .. n -> RowUniverse] : n \in 1 .. MaxRows}

\* main() on a new store, just after fetch_batch returned for the range
\* [0, 1] with BATCH_SIZE = 2
InitRows ==
    /\ results \in RowSeqs
    /\ remote = results
    /\ tables = ensure_schema({})
    /\ coinbase_spends = {}
    /\ metadata = {}
    /\ conn_spends = {}
    /\ conn_meta = {}
    /\ cursor = 0
    /\ pc = "normalize"
    /\ outcome = "running"
    /\ BATCH_SIZE = 2
    /\ last_height = -1
    /\ max_height = 1
    /\ start = 0
    /\ end = 1
    /\ batch_start = 0
    /\ batch_end = 1
    /\ rows_to_insert = <<>>
    /\ batches = <<<<0, 1>>>>
    /\ last_commit = None
    /\ resumed = FALSE
    /\ remote_mutated = FALSE
    /\ calls = [NoCalls EXCEPT !.ckpt_reads = 1, !.max_queries = 1]
    /\ other = NoProcess

NextRows == NormalizeRows \/ NormalizeFails \/ InsertRows \/ CommitRows

SpecRows == InitRows /\ [][NextRows]_vars

\* ------------------------------------ two collectors on one store file
\* the process whose variables the state holds
Process ==
    [pc |-> pc, outcome |-> outcome, BATCH_SIZE |-> BATCH_SIZE,
     last_height |-> last_height, max_height |-> max_height, start |-> start,
     end |-> end, batch_start |-> batch_start, batch_end |-> batch_end,
     results |-> results, rows_to_insert |-> rows_to_insert,
     conn_spends |-> conn_spends, conn_meta |-> conn_meta, cursor |-> cursor,
     batches |-> batches, calls |-> calls]

\* the scheduler lets the other process go on: each process keeps its own
\* variables and connection; a connection without an open transaction sees
\* what is committed
Switch ==
    /\ other' = Process
    /\ pc' = other.pc
    /\ outcome' = other.outcome
    /\ BATCH_SIZE' = other.BATCH_SIZE
    /\ last_height' = other.last_height
    /\ max_height' = other.max_height
    /\ start' = other.start
    /\ end' = other.end
    /\ batch_start' = other.batch_start
    /\ batch_end' = other.batch_end
    /\ results' = other.results
    /\ rows_to_insert' = other.rows_to_insert
    /\ cursor' = other.cursor
    /\ batches' = other.batches
    /\ calls' = other.calls
    /\ conn_spends' = IF InTransaction(other) THEN other.conn_spends ELSE coinbase_spends
    /\ conn_meta' = IF InTransaction(other) THEN other.conn_meta ELSE metadata
    /\ UNCHANGED <<remote, store, last_commit, resumed, remote_mutated>>

\* a chain of MaxHeight + 1 blocks and no store file yet
InitTwoRuns ==
    /\ remote = [i \in 1 .. (MaxHeight + 1) |-> RawRow(i - 1, "ok", None)]
    /\ tables = {}
    /\ coinbase_spends = {}
    /\ metadata = {}
    /\ conn_spends = {}
    /\ conn_meta = {}
    /\ cursor = 0
    /\ pc = "idle"
    /\ outcome = "none"
    /\ BATCH_SIZE = 1
    /\ last_height = -1
    /\ max_height = 0
    /\ start = 0
    /\ end = 0
    /\ batch_start = 0
    /\ batch_end = 0
    /\ results = <<>>
    /\ rows_to_insert = <<>>
    /\ batches = <<>>
    /\ last_commit = None
    /\ resumed = FALSE
    /\ remote_mutated = FALSE
    /\ calls = NoCalls
    /\ other = NoProcess

NextTwoRuns ==
    \/ StartRun(BatchSizes)
    \/ GetMaxHeight
    \/ LoopExit
    \/ FetchBatch
    \/ NormalizeRows
    \/ InsertRows
    \/ CommitRows
    \/ UpsertCheckpoint
    \/ CommitCheckpoint
    \/ Switch

SpecTwoRuns == InitTwoRuns /\ [][NextTwoRuns]_vars

\* ---------------------------------------------------------- properties
\* the durable checkpoint as a run would read it
Ckpt == get_last_processed_height(metadata)
CheckpointRow(h) == [key |-> "last_processed_height", value |-> Str(h)]
Height(row) == PyInt(row.creation_block_height[1])

\* the while loop has processed its last batch
RunComplete == pc = "loop" /\ ~(batch_start <= end)

\* a batch has been fetched and normalised and holds rows the table accepts
StorableRows == {i \in DOMAIN rows_to_insert : NotNullOk(rows_to_insert[i])}
BatchRowsDurable ==
    \A i \in StorableRows : Key(rows_to_insert[i]) \in Keys(coinbase_spends)

\* C1: in every durable state the rows of the batch in progress are present
\* exactly when the checkpoint holds that batch's end height (one commit
\* makes both durable).
C1_AtomicBatchCommit ==
    (pc \in {"insert", "commit_rows", "upsert", "commit_meta"} /\ StorableRows # {})
        => (BatchRowsDurable <=> (metadata # {} /\ Ckpt = batch_end))

\* C2: the durable checkpoint exists only after a commit of batch rows, and
\* every remote row at a height up to the checkpoint went through a committed
\* insert: it could be normalised, and if the table accepts it its key is
\* durably stored.
C2_CheckpointBehindData ==
    /\ metadata # {} => last_commit # None
    /\ \A i \in DOMAIN remote :
        Height(remote[i]) <= Ckpt =>
            /\ ~NormalizeRaises(remote[i])
            /\ NotNullOk(Normalize(remote[i]))
                   => Key(Normalize(remote[i])) \in Keys(coinbase_spends)

C2_Witness ==
    /\ pc = "idle"
    /\ outcome = "killed"
    /\ Ckpt >= 1
    /\ Ckpt < get_max_block_height(remote)
    /\ coinbase_spends # {}

\* the store a single run leaves that starts on an empty store and is never
\* interrupted: the loop of main() over [bs, e]
RECURSIVE UninterruptedRun(_, _, _, _, _)
UninterruptedRun(table, rows, bs, size, e) ==
    IF ~(bs <= e) THEN table
    ELSE UninterruptedRun(
             ExecuteMany(table, NormalizeAll(fetch_batch(rows, bs, Min(bs + size - 1, e)))),
             rows, Min(bs + size - 1, e) + 1, size, e)

\* C3: when a run completes over a remote dataset whose rows did not change,
\* whatever runs failed or were terminated before it, the durable records and
\* the checkpoint are those of one uninterrupted run over that dataset.
C3_IdempotentResume ==
    (RunComplete /\ ~remote_mutated) =>
        /\ BATCH_SIZE >= 1
        /\ coinbase_spends = UninterruptedRun({}, remote, 0, BATCH_SIZE, max_height)
        /\ metadata = {CheckpointRow(max_height)}

C3_Witness ==
    /\ RunComplete
    /\ ~remote_mutated
    /\ resumed
    /\ last_height >= 0
    /\ Len(batches) >= 1
    /\ coinbase_spends # {}

\* C4: at the end of a full run the ranges passed to fetch are non-empty,
\* each [s, min(s+B-1, M)], each starting right after the previous one, the
\* first at checkpoint+1 and the last ending at M.
C4_RangeCoverage ==
    RunComplete =>
        /\ batches # <<>>
        /\ batches[1][1] = last_height + 1
        /\ batches[Len(batches)][2] = max_height
        /\ \A i \in DOMAIN batches :
            /\ batches[i][1] <= batches[i][2]
            /\ batches[i][2] = Min(batches[i][1] + BATCH_SIZE - 1, max_height)
        /\ \A i \in 1 .. (Len(batches) - 1) : batches[i + 1][1] = batches[i][2] + 1

C4_Witness ==
    /\ RunComplete
    /\ BATCH_SIZE = 2
    /\ Len(batches) = 2
    /\ batches[2][1] = batches[2][2]
    /\ last_height = -1

\* C5: every step leaves the durable last_processed_height greater than or
\* equal to the value it had, for any configured batch size.
C5_CheckpointMonotone ==
    [][get_last_processed_height(metadata') >= get_last_processed_height(metadata)]_vars

\* C6: once the rows of a batch have been committed and the store holds
\* records, the durable checkpoint equals the end height of the batch whose
\* rows were committed last.
C6_CheckpointIsLastCommitted ==
    (last_commit # None /\ coinbase_spends # {})
        => (metadata # {} /\ Ckpt = last_commit[1])

\* C7: no step changes or deletes a durable record, and every execution of
\* the insert statement leaves every record the connection already sees as
\* it is.
C7_InsertIfAbsent ==
    [][/\ \A rec \in coinbase_spends : rec \in coinbase_spends'
       /\ (pc = "insert" /\ pc' # "idle")
              => \A rec \in conn_spends : rec \in conn_spends']_vars

C7_Witness ==
    /\ pc = "upsert"
    /\ \E i \in DOMAIN rows_to_insert :
        /\ Key(rows_to_insert[i]) \in Keys(coinbase_spends)
        /\ rows_to_insert[i] \notin coinbase_spends
        /\ rows_to_insert[i].spend_txid # None

\* C8: a run that reads a checkpoint >= the remote max height has issued no
\* fetch, and unless the max-height query fails or the process is killed it
\* ends as up to date with records and checkpoint untouched.
C8_NoOpWhenSynced ==
    /\ [](pc = "max" => (last_height = Ckpt /\ batches = <<>>))
    /\ [][(/\ pc = "max"
           /\ pc' # "max"
           /\ last_height >= get_max_block_height(remote)
           /\ outcome' \notin {"failed_max", "killed"})
          => (/\ pc' = "idle"
              /\ outcome' = "uptodate"
              /\ batches' = <<>>
              /\ UNCHANGED <<coinbase_spends, metadata, conn_spends, conn_meta>>)]_vars

C8_Witness ==
    /\ pc = "idle"
    /\ outcome = "uptodate"
    /\ batches = <<>>
    /\ coinbase_spends # {}
    /\ Ckpt = get_max_block_height(remote)

\* C9: the step on which the fetch or the normalisation of a batch fails ends
\* the run, writes nothing, leaves nothing uncommitted, and leaves the
\* checkpoint at the end of the batch before (the value read at start for the
\* first batch).
BatchFailed(o) == o \in {"failed_fetch", "error_fetch", "error_normalize"}
C9_FailureStopsRun ==
    [][(outcome = "running" /\ BatchFailed(outcome'))
          => (/\ pc' = "idle"
              /\ UNCHANGED <<coinbase_spends, metadata>>
              /\ conn_spends' = coinbase_spends
              /\ conn_meta' = metadata
              /\ get_last_processed_height(metadata') =
                     IF Len(batches') >= 2
                     THEN batches'[Len(batches') - 1][2]
                     ELSE last_height)]_vars

C9_Witness ==
    /\ pc = "idle"
    /\ outcome = "failed_fetch"
    /\ Len(batches) = 2
    /\ Ckpt = batches[1][2]
    /\ Ckpt + 1 = batches[2][1]
    /\ coinbase_spends # {}

\* C10: when a batch has been committed and the checkpoint stands at its end,
\* the key of every row the fetch returned for it is in the store.
C10_NoSilentSkips ==
    (pc = "loop" /\ batches # <<>> /\ metadata # {} /\ Ckpt = batch_end)
        => \A i \in DOMAIN results :
               Key(Normalize(results[i])) \in Keys(coinbase_spends)


\* ceil(n / d) for d >= 1
CeilDiv(n, d) == (n + d - 1) \div d

\* the durable records that carry the key of a remote row
RecordsOf(row) ==
    {rec \in coinbase_spends :
        /\ rec.coinbase_txid = row.coinbase_txid
        /\ rec.output_index = to_int(row.output_index)}

\* C11: a run that completes from checkpoint c with remote maximum M and batch
\* size B processed ceil((M - c) / B) batches, ends with the checkpoint at M,
\* and the store holds exactly one record for every remote coinbase output
\* created at a height in [c + 1, M].
C11_CompleteRunCoversRange ==
    RunComplete =>
        /\ Len(batches) = CeilDiv(max_height - last_height, BATCH_SIZE)
        /\ Ckpt = max_height
        /\ \A i \in DOMAIN remote :
            Height(remote[i]) \in (last_height + 1) .. max_height
                => Cardinality(RecordsOf(remote[i])) = 1

\* the parts of C11 that do not depend on every row being storable
C11_BatchCountAndCheckpoint ==
    RunComplete =>
        /\ Len(batches) = CeilDiv(max_height - last_height, BATCH_SIZE)
        /\ Ckpt = max_height
        /\ \A i \in DOMAIN remote :
            (/\ Height(remote[i]) \in (last_height + 1) .. max_height
             /\ NotNullOk(Normalize(remote[i])))
                => Cardinality(RecordsOf(remote[i])) = 1


\* what a read-only reader finds in coinbase_spends when it opens the store
\* file: the committed rows (plot_*.py, count_unspent_first_year.py)
ReaderView == coinbase_spends

\* C12: whenever what a reader can observe of coinbase_spends changes, it
\* changes from holding none of the records the running batch inserts to
\* holding all of them: no step exposes part of a batch.
C12_NoHalfWrittenBatch ==
    [][ReaderView' # ReaderView
          => ReaderView' = ExecuteMany(ReaderView, rows_to_insert)]_vars

C12_Witness ==
    /\ pc = "insert"
    /\ cursor = 1
    /\ Len(rows_to_insert) = 2
    /\ conn_spends # coinbase_spends
    /\ ReaderView # {}


\* C13: when the max-height query fails, the run ends there: the query was
\* issued once, no range was fetched, and the durable records and checkpoint
\* are what they were.
C13_MaxHeightFailureIsFatal ==
    [][(outcome = "running" /\ outcome' = "failed_max")
          => /\ pc = "max"
             /\ pc' = "idle"
             /\ calls'.max_queries = 1
             /\ batches' = <<>>
             /\ UNCHANGED <<coinbase_spends, metadata>>]_vars

C13_Witness ==
    /\ pc = "idle"
    /\ outcome = "failed_max"
    /\ calls.max_queries = 1
    /\ batches = <<>>
    /\ coinbase_spends # {}
    /\ metadata # {}


\* C14: the height read back is -1 while no checkpoint was ever stored, and
\* afterwards it is the integer passed to the most recent set; the metadata
\* table never holds more than the one checkpoint row.
C14_CheckpointRoundTrip ==
    /\ Cardinality(metadata) <= 1
    /\ calls.ckpt_writes = 0 => get_last_processed_height(metadata) = -1
    /\ calls.ckpt_writes > 0 => get_last_processed_height(metadata) = batch_end

C14_Witness ==
    /\ calls.ckpt_writes = 2
    /\ calls.ckpt_reads = 1
    /\ batch_end = 0 - 10
    /\ last_height = batch_end
    /\ metadata = {CheckpointRow(0 - 10)}


\* C15: every iteration of the batch loop strictly increases batch_start, for
\* every batch size the configuration accepts, so the loop condition
\* batch_start <= end becomes false after finitely many batches.
C15_LoopAdvances ==
    [][(pc = "commit_meta" /\ pc' = "loop") => batch_start' > batch_start]_vars

\* C16: every range handed to fetch_batch is well formed and inside the run's
\* range: batch_start <= batch_end <= end, for every batch size the
\* configuration accepts.
C16_FetchRangeOrdered ==
    \A i \in DOMAIN batches :
        /\ batches[i][1] <= batches[i][2]
        /\ pc # "idle" => batches[i][2] <= end


\* the same result with its rows in the opposite order
Reverse(seq) == [i \in 1 .. Len(seq) |-> seq[Len(seq) + 1 - i]]

\* C17: the records a batch leaves in the store are those the same result
\* leaves when its rows arrive in another order, results with two rows of
\* the same (coinbase_txid, output_index) included.
C17_RowOrderIrrelevant ==
    pc = "upsert"
        => coinbase_spends = ExecuteMany({}, NormalizeAll(Reverse(results)))

\* the same of C17 for results whose rows have pairwise different keys
C17_UniqueKeysOrderIrrelevant ==
    (/\ pc = "upsert"
     /\ \A i, j \in DOMAIN rows_to_insert :
            Key(rows_to_insert[i]) = Key(rows_to_insert[j]) => i = j)
        => coinbase_spends = ExecuteMany({}, NormalizeAll(Reverse(results)))

\* a stored integer equals the warehouse number it was cast from
SameNumber(stored, raw) ==
    IF raw = None THEN stored = None
    ELSE /\ stored # None
         /\ ~raw[1].nan
         /\ raw[1].tenths = stored[1] * 10
\* a stored timestamp is the text form of the warehouse timestamp
SameTime(stored, raw) ==
    IF raw = None THEN stored = None ELSE stored = Some(IsoFormat(raw[1]))
\* rec stores row: spend fields null exactly when the row's are null, every
\* field with the row's value
Preserved(rec, row) ==
    /\ rec.spend_txid = row.spend_txid
    /\ SameNumber(rec.spend_block_height, row.spend_block_height)
    /\ SameTime(rec.spend_block_time, row.spend_block_time)
    /\ rec.coinbase_txid = row.coinbase_txid
    /\ SameNumber(rec.output_index, row.output_index)
    /\ SameNumber(rec.value_sats, row.value_sats)
    /\ SameNumber(rec.creation_block_height, row.creation_block_height)
    /\ SameTime(rec.creation_block_time, row.creation_block_time)

\* C18: every record the batch stored carries the values of a row of the
\* result: spend_txid, spend_block_height and spend_block_time are null
\* exactly when the row's are (a height or index of 0 stays 0), and
\* coinbase_txid, output_index, value_sats and creation_block_height are
\* the row's.
C18_NormalizationPreserves ==
    pc = "upsert" =>
        \A rec \in coinbase_spends :
            \E i \in DOMAIN results : Preserved(rec, results[i])

\* the same of C18 for results whose numbers are all integers
C18_IntegersPreserved ==
    (/\ pc = "upsert"
     /\ \A i \in DOMAIN results : results[i].value_sats[1].tenths % 10 = 0)
        => \A rec \in coinbase_spends :
               \E i \in DOMAIN results : Preserved(rec, results[i])


\* batches of the running run whose checkpoint statement has been executed
CompletedBatches ==
    IF pc \in {"normalize", "insert", "commit_rows", "upsert"}
    THEN Len(batches) - 1
    ELSE Len(batches)

\* C19: a run reads the checkpoint once, at startup before any fetch, and
\* queries the max height once; it writes the checkpoint once per completed
\* batch and at no other time (the durable checkpoint changes only in the
\* commit of such a write, and no step that ends the run reads or writes);
\* every batch starts where the single read and the batch size put it.
C19_CheckpointAccessPattern ==
    /\ [](outcome = "running" =>
            /\ calls.ckpt_reads = 1
            /\ calls.ckpt_writes = CompletedBatches
            /\ calls.max_queries = (IF pc = "max" THEN 0 ELSE 1)
            /\ pc # "max" =>
                /\ start = last_height + 1
                /\ end = max_height
                /\ \A i \in DOMAIN batches :
                       batches[i][1] = start + (i - 1) * BATCH_SIZE)
    /\ [][/\ metadata' # metadata => pc = "commit_meta"
          /\ (outcome = "running" /\ pc' = "idle") =>
                /\ calls'.ckpt_reads = calls.ckpt_reads
                /\ calls'.ckpt_writes = calls.ckpt_writes]_vars

C19_Witness ==
    /\ pc = "loop"
    /\ Len(batches) = 2
    /\ calls.ckpt_writes = 2
    /\ calls.ckpt_reads = 1
    /\ last_height >= 0
    /\ Ckpt = batches[2][2]


\* C20: the start of a run on a store that exists (connect, ensure_schema)
\* leaves both tables in place with every durable record and the stored
\* checkpoint as they were, and the run reads that checkpoint.
C20_InitIdempotent ==
    [][(pc = "idle" /\ pc' = "max") =>
          /\ tables' = {"coinbase_spends", "metadata"}
          /\ coinbase_spends' = coinbase_spends
          /\ metadata' = metadata
          /\ last_height' = get_last_processed_height(metadata)]_vars

C20_Witness ==
    /\ pc = "max"
    /\ coinbase_spends # {}
    /\ metadata # {}
    /\ last_height >= 1
    /\ last_height = Ckpt


\* the columns that go through to_int
NumericColumns ==
    {"output_index", "value_sats", "creation_block_height", "spend_block_height"}

\* C21: the cast never truncates silently: once the list comprehension has
\* built rows_to_insert, every integer in it equals the warehouse number it
\* was cast from; and a result with a number that cannot be cast ends the run
\* with nothing of the batch inserted and the checkpoint not advanced.
C21_NoSilentTruncation ==
    /\ \A i \in DOMAIN rows_to_insert :
        \A col \in NumericColumns :
            SameNumber(rows_to_insert[i][col], results[i][col])
    /\ outcome = "error_normalize" =>
        /\ coinbase_spends = {}
        /\ metadata = {}

\* the part of C21 about casts that raise
C21_FailedCastAborts ==
    outcome = "error_normalize" =>
        /\ pc = "idle"
        /\ coinbase_spends = {}
        /\ conn_spends = {}
        /\ metadata = {}


\* C22: with two runs interleaved on one store, a run's checkpoint commit
\* stores that run's batch_end whatever the other run has committed, so the
\* stored checkpoint is lowered exactly by a run that read its checkpoint
\* before the other run's commits (a lost update); rows whose key the other
\* run has inserted are ignored, so no durable record changes or disappears
\* and no insert fails on a duplicate key.
C22_LostCheckpointUpdate ==
    [][/\ \A rec \in coinbase_spends : rec \in coinbase_spends'
       /\ (pc = "commit_meta" /\ pc' = "loop" /\ other' = other)
              => get_last_processed_height(metadata') = batch_end
       /\ get_last_processed_height(metadata') < get_last_processed_height(metadata)
              => /\ pc = "commit_meta"
                 /\ pc' = "loop"
                 /\ other' = other
                 /\ last_height < get_last_processed_height(metadata)
                 /\ other.outcome # "none"]_vars

\* the other run completed and committed its last batch end; this run has
\* since overwritten the checkpoint with the lower end of its own batch
C22_Witness ==
    /\ pc = "loop"
    /\ outcome = "running"
    /\ other.outcome = "done"
    /\ other.batches # <<>>
    /\ Ckpt = batch_end
    /\ Ckpt < other.batches[Len(other.batches)][2]
    /\ Cardinality(coinbase_spends) = MaxHeight + 1

====
